---- MODULE Spec2Model ----
(***************************************************************************)
(* NEO-6M GPS parser for the Arduino R4 (GPS_NEO6M_Parse_R4_FSP.ino).      *)
(*                                                                         *)
(* Two execution contexts share the circular buffer gpsDataBuffer:         *)
(*   - the 1 kHz timer callback gpsDataReadISR (producer), which runs to   *)
(*     completion once entered and cannot be entered inside a              *)
(*     noInterrupts()/interrupts() section;                                *)
(*   - loop() with getSentence() and parseSentence() (consumer).           *)
(* The consumer is cut at every access to a variable the ISR shares; an    *)
(* ISR invocation may be entered between any two consumer steps.           *)
(*                                                                         *)
(* Characters are their byte values 0..255 (char is unsigned on the        *)
(* Renesas RA4M1 / ARM EABI build).                                        *)
(***************************************************************************)
EXTENDS Integers, Sequences, FiniteSets, TLC

(***************************************************************************)
(* Bounds of the model (not program values).                               *)
(***************************************************************************)
\* Slots of gpsDataBuffer. The program uses 512 (line 33); the model
\* scales the ring so that wrap-around and overflow happen within a few bytes.
GPSBUFR1 == 4
\* Most bytes the UART holds unread between two timer callbacks.
MaxAvail == 2
\* Longest time, in ms, that a run covers.
MaxElapsed == 2001
\* Longest record drawn for the checksum validator.
MaxRecLen == 5
\* Longest payload drawn for the checksum round trip.
MaxPayLen == 4
\* Values of the millisecond counter before it wraps to 0.  millis() is an
\* unsigned long (2^32 values); the model keeps the arithmetic modulo a
\* smaller width.
ClockWrap == 65536

(***************************************************************************)
(* Program constants.                                                      *)
(***************************************************************************)
NMEAMAXLEN == 79
GPSLOST == 2000

\* Character codes the source names as literals.
NUL == 0
LF == 10
CR == 13
Dollar == 36
Star == 42
Comma == 44

AsciiTable ==
  << " ", "!", "dquote", "#", "$", "%", "&", "'", "(", ")", "*", "+", ",", "-", ".", "/",
     "0", "1", "2", "3", "4", "5", "6", "7", "8", "9", ":", ";", "<", "=", ">", "?",
     "@", "A", "B", "C", "D", "E", "F", "G", "H", "I", "J", "K", "L", "M", "N", "O",
     "P", "Q", "R", "S", "T", "U", "V", "W", "X", "Y", "Z", "[", "bslash", "]", "^", "_",
     "bquote", "a", "b", "c", "d", "e", "f", "g", "h", "i", "j", "k", "l", "m", "n", "o",
     "p", "q", "r", "s", "t", "u", "v", "w", "x", "y", "z", "{", "|", "}", "~" >>

\* The byte value of a printable character, and of a sequence of them.
Ord(ch) == 31 + (CHOOSE i \in 1..Len(AsciiTable) : AsciiTable[i] = ch)
Bytes(chs) == [i \in 1..Len(chs) |-> Ord(chs[i])]

Byte == 0..255

VARIABLES
  \* ---- environment
  stream,           \* the bytes the serial transport presents, in order
  sent,             \* how many of them have reached the UART
  rxFifo,           \* Serial1: bytes received and not yet read
  now,              \* the last value millis() returned
  elapsed,          \* ms passed since the first state (not program state)
  acceptedAt,       \* elapsed at the last accepted record, -1 before the first
  TZOFFSET,         \* the configured timezone offset (line 34)
  \* ---- shared between ISR and loop (lines 40-43)
  gpsDataBuffer, bufferHead, bufferTail, bufferOverflow,
  \* ---- ISR
  isrActive,        \* gpsDataReadISR has been entered and has not returned
  \* ---- loop() / getSentence()
  pc,               \* position of the consumer
  bufferOverflowed, \* loop() local (line 129)
  bufferHeadCopy, character, dataValid,
  dataStart, dataStop, dataCounter,
  sentence,
  checksumErrors, lastFixMillis, signalWarning,
  \* ---- the Fix (lines 47-51)
  gpsValid, gpsDateD, gpsDateM, gpsDateY, gpsTimeH, gpsTimeM, gpsTimeS,
  gpsLatD, gpsLongD, gpsSats,
  \* ---- history (not program state)
  stored,           \* bytes the ISR stored in gpsDataBuffer, in order
  readOut,          \* bytes getSentence read out of gpsDataBuffer, in order
  dropped,          \* bytes the ISR discarded since the last read-and-clear
  everDropped,      \* the ISR has found the buffer full at least once
  lastRecord,       \* the last completed record, as framed (before strtok)
  lastOutcome       \* what became of it: "none", "accepted", "rejected"

envVars == <<stream, sent, rxFifo, now, elapsed, acceptedAt, TZOFFSET>>
ringVars == <<gpsDataBuffer, bufferHead, bufferTail, bufferOverflow>>
frameVars == <<dataStart, dataStop, dataCounter, sentence>>
fixVars == <<gpsValid, gpsDateD, gpsDateM, gpsDateY, gpsTimeH, gpsTimeM, gpsTimeS,
             gpsLatD, gpsLongD, gpsSats>>
histVars == <<stored, readOut, dropped, everDropped, lastRecord, lastOutcome>>
vars == <<envVars, ringVars, isrActive, pc, bufferOverflowed, bufferHeadCopy,
          character, dataValid, frameVars, checksumErrors, lastFixMillis,
          signalWarning, fixVars, histVars>>

(***************************************************************************)
(* Pure helpers.                                                           *)
(***************************************************************************)
\* Bit k of byte a.
Bit(a, k) ==
  (a \div (IF k = 0 THEN 1 ELSE IF k = 1 THEN 2 ELSE IF k = 2 THEN 4
           ELSE IF k = 3 THEN 8 ELSE IF k = 4 THEN 16 ELSE IF k = 5 THEN 32
           ELSE IF k = 6 THEN 64 ELSE 128)) % 2
XorBit(a, b, k) == (Bit(a, k) + Bit(b, k)) % 2
XorLow7(a, b) ==
  XorBit(a, b, 0) + 2 * XorBit(a, b, 1) + 4 * XorBit(a, b, 2) + 8 * XorBit(a, b, 3)
  + 16 * XorBit(a, b, 4) + 32 * XorBit(a, b, 5) + 64 * XorBit(a, b, 6)

\* Variant of Xor8 that keeps seven bits.
Xor8_SevenBits(a, b) == [ab \in Nat \X Nat |-> XorLow7(ab[1], ab[2])][<<a, b>>]

\* byte ^ byte (line 266).
Xor8(a, b) ==
  [ab \in Nat \X Nat |-> XorLow7(ab[1], ab[2]) + 128 * XorBit(ab[1], ab[2], 7)][<<a, b>>]

\* toupper() in the "C" locale (line 570).
ToUpper(c) == IF c >= Ord("a") /\ c <= Ord("z") THEN c - 32 ELSE c

\* htoi (lines 569-577).
htoi(digit) ==
  LET d == ToUpper(digit) IN
  IF d >= Ord("0") /\ d <= Ord("9") THEN d - Ord("0")
  ELSE IF d >= Ord("A") /\ d <= Ord("F") THEN d - Ord("A") + 10
  ELSE 0

\* dtoi (lines 580-585).
dtoi(digit) ==
  IF digit >= Ord("0") /\ digit <= Ord("9") THEN digit - Ord("0") ELSE 0

\* strlen of the C string that starts at index p of array s.
RECURSIVE StrLen(_, _)
StrLen(s, p) == IF s[p] = NUL THEN 0 ELSE 1 + StrLen(s, p + 1)

\* The C string that starts at index p of array s, as a sequence.
CStr(s, p) == [i \in 1..StrLen(s, p) |-> s[p + i - 1]]

\* strtok(.., "*") from scan position p of array s: skip leading '*', then
\* the token runs to the next '*' (overwritten with NUL) or to the end of
\* the string.  tok = -1 stands for NULL; save is the position kept for the
\* next call.
RECURSIVE SkipStars(_, _)
SkipStars(s, p) == IF s[p] = Star THEN SkipStars(s, p + 1) ELSE p
RECURSIVE TokEnd(_, _)
TokEnd(s, p) == IF s[p] = Star \/ s[p] = NUL THEN p ELSE TokEnd(s, p + 1)

StrTok(s, p) ==
  LET b == SkipStars(s, p)
      e == TokEnd(s, b)
  IN IF s[b] = NUL THEN [tok |-> -1, save |-> b, s |-> s]
     ELSE IF s[e] = Star THEN [tok |-> b, save |-> e + 1, s |-> [s EXCEPT ![e] = NUL]]
     ELSE [tok |-> b, save |-> e, s |-> s]

\* The checksum loop of lines 265-267 over the C string at index p: the XOR
\* of its strlen() characters.  XOR is associative, so the loop's running
\* value is computed here by halves of the index range lo..hi.
RECURSIVE CkSumRange(_, _, _)
CkSumRange(s, lo, hi) ==
  IF lo > hi THEN 0
  ELSE IF lo = hi THEN Xor8(0, s[lo])
  ELSE Xor8(CkSumRange(s, lo, (lo + hi) \div 2),
            CkSumRange(s, ((lo + hi) \div 2) + 1, hi))
CkSumCalc(s, p) == CkSumRange(s, p, p + StrLen(s, p) - 1)

\* Line 269: (htoi(nmeaCkSum[0]) << 4) + htoi(nmeaCkSum[1]), stored in a byte.
CkSumComp(s, p) == (htoi(s[p]) * 16 + htoi(s[p + 1])) % 256

\* Lines 258-296 on the completed record in array s: the array after the
\* strtok calls and the verdict.  counted tells whether checksumErrors++ ran.
Validate(s) ==
  LET t1 == StrTok(s, 0) IN
  IF t1.tok = -1 THEN [s |-> t1.s, valid |-> FALSE, counted |-> FALSE]
  ELSE LET t2 == StrTok(t1.s, t1.save) IN
       IF t2.tok = -1 \/ StrLen(t2.s, t2.tok) < 2
       THEN [s |-> t2.s, valid |-> FALSE, counted |-> FALSE]
       ELSE IF CkSumCalc(t2.s, t1.tok) = CkSumComp(t2.s, t2.tok)
            THEN [s |-> t2.s, valid |-> TRUE, counted |-> FALSE]
            ELSE [s |-> t2.s, valid |-> FALSE, counted |-> TRUE]

(***************************************************************************)
(* Environment: the UART and the clock.                                    *)
(***************************************************************************)
\* Time, in ms, that passes between two readings of the clock: none, the
\* threshold of line 198, or one more.
ClockSteps == { 0, GPSLOST, GPSLOST + 1 }

\* millis() read d ms after it returned t: an unsigned long that wraps.
Millis(t, d) == (t + d) % ClockWrap

\* The next byte of the stream reaches the UART.
SerialArrive ==
  /\ sent < Len(stream)
  /\ Len(rxFifo) < MaxAvail
  /\ rxFifo' = Append(rxFifo, stream[sent + 1])
  /\ sent' = sent + 1
  /\ UNCHANGED <<stream, now, elapsed, acceptedAt, TZOFFSET, ringVars, isrActive, pc, bufferOverflowed,
                 bufferHeadCopy, character, dataValid, frameVars, checksumErrors,
                 lastFixMillis, signalWarning, fixVars, histVars>>

(***************************************************************************)
(* gpsDataReadISR (lines 64-87).                                           *)
(***************************************************************************)
\* The timer fires and the callback is entered.  A callback that finds
\* nothing available changes only the heartbeat counter, which is not
\* modelled, so entry is taken when Serial1.available() > 0.
ISREnter ==
  /\ ~isrActive
  /\ rxFifo # <<>>
  /\ isrActive' = TRUE
  /\ UNCHANGED <<envVars, ringVars, pc, bufferOverflowed, bufferHeadCopy, character,
                 dataValid, frameVars, checksumErrors, lastFixMillis, signalWarning,
                 fixVars, histVars>>

\* Variants of PushByte with one slip each: the byte stored at the advanced
\* index; the overflow flag not raised; the full test left out.
PushByte_StoreAtNew(buf, head, tail, ovf, b) ==
  LET newBufferHead == (head + 1) % GPSBUFR1 IN
  IF newBufferHead = tail
  THEN [buf |-> buf, head |-> head, ovf |-> TRUE, kept |-> FALSE]
  ELSE [buf |-> [buf EXCEPT ![newBufferHead] = b], head |-> newBufferHead,
        ovf |-> ovf, kept |-> TRUE]

PushByte_NoFlag(buf, head, tail, ovf, b) ==
  LET newBufferHead == (head + 1) % GPSBUFR1 IN
  IF newBufferHead = tail
  THEN [buf |-> buf, head |-> head, ovf |-> ovf, kept |-> FALSE]
  ELSE [buf |-> [buf EXCEPT ![head] = b], head |-> newBufferHead, ovf |-> ovf,
        kept |-> TRUE]

PushByte_NoFullCheck(buf, head, tail, ovf, b) ==
  [buf |-> [buf EXCEPT ![head] = b], head |-> (head + 1) % GPSBUFR1, ovf |-> ovf,
   kept |-> TRUE]

\* Variant of PushByte that keeps refusing while the overflow flag is up.
PushByte_WhileFlag(buf, head, tail, ovf, b) ==
  LET newBufferHead == (head + 1) % GPSBUFR1 IN
  IF newBufferHead = tail \/ ovf
  THEN [buf |-> buf, head |-> head, ovf |-> TRUE, kept |-> FALSE]
  ELSE [buf |-> [buf EXCEPT ![head] = b], head |-> newBufferHead, ovf |-> ovf,
        kept |-> TRUE]

\* Lines 76-85 on one incoming byte b: the ring after it.  kept tells
\* whether b was stored.
PushByte(buf, head, tail, ovf, b) ==
  LET newBufferHead == (head + 1) % GPSBUFR1 IN
  IF newBufferHead = tail
  THEN [buf |-> buf, head |-> head, ovf |-> TRUE, kept |-> FALSE]
  ELSE [buf |-> [buf EXCEPT ![head] = b], head |-> newBufferHead, ovf |-> ovf,
        kept |-> TRUE]

\* One iteration of the while loop of lines 75-86.
ISRPush ==
  /\ isrActive
  /\ rxFifo # <<>>
  /\ LET r == PushByte(gpsDataBuffer, bufferHead, bufferTail, bufferOverflow,
                       Head(rxFifo))
     IN /\ gpsDataBuffer' = r.buf
        /\ bufferHead' = r.head
        /\ bufferOverflow' = r.ovf
        /\ stored' = IF r.kept THEN Append(stored, Head(rxFifo)) ELSE stored
        /\ dropped' = IF r.kept THEN dropped ELSE dropped + 1
        /\ everDropped' = (everDropped \/ ~r.kept)
  /\ rxFifo' = Tail(rxFifo)
  /\ UNCHANGED <<stream, sent, now, elapsed, acceptedAt, TZOFFSET, bufferTail,
                 isrActive, pc,
                 bufferOverflowed, bufferHeadCopy, character, dataValid, frameVars,
                 checksumErrors, lastFixMillis, signalWarning, fixVars, readOut,
                 lastRecord, lastOutcome>>

\* Serial1.available() == 0: the callback returns.
ISRReturn ==
  /\ isrActive
  /\ rxFifo = <<>>
  /\ isrActive' = FALSE
  /\ UNCHANGED <<envVars, ringVars, pc, bufferOverflowed, bufferHeadCopy, character,
                 dataValid, frameVars, checksumErrors, lastFixMillis, signalWarning,
                 fixVars, histVars>>

(***************************************************************************)
(* loop(), step 1 (lines 129-145): read and clear the overflow flag.       *)
(***************************************************************************)
LoopOverflowCheck ==
  /\ ~isrActive
  /\ pc = "L_ovf"
  /\ bufferOverflowed' = bufferOverflow
  /\ bufferOverflow' = FALSE
  /\ dropped' = 0
  /\ pc' = "GS_snap"
  /\ UNCHANGED <<envVars, gpsDataBuffer, bufferHead, bufferTail, isrActive,
                 bufferHeadCopy, character, dataValid, frameVars, checksumErrors,
                 lastFixMillis, signalWarning, fixVars, stored, readOut, everDropped,
                 lastRecord, lastOutcome>>

(***************************************************************************)
(* getSentence (lines 221-303).                                            *)
(***************************************************************************)
\* Lines 225-232: the locals and the snapshot of bufferHead.
GetSentenceSnapshot ==
  /\ ~isrActive
  /\ pc = "GS_snap"
  /\ dataValid' = FALSE
  /\ bufferHeadCopy' = bufferHead
  /\ pc' = "GS_loop"
  /\ UNCHANGED <<envVars, ringVars, isrActive, bufferOverflowed, character, frameVars,
                 checksumErrors, lastFixMillis, signalWarning, fixVars, histVars>>

\* Variant of LoopTest that forgets the indices wrap.
LoopTest_Less == bufferTail < bufferHeadCopy

\* Variant of LoopTest that reads up to the live write index.
LoopTest_Live == bufferTail # bufferHead

\* Line 233: the test of the drain loop.
LoopTest == bufferTail # bufferHeadCopy

\* Variant of SlotRead that increments before it reads.
SlotRead_Next == gpsDataBuffer[(bufferTail + 1) % GPSBUFR1]

\* Line 234: the slot getSentence reads.
SlotRead == gpsDataBuffer[bufferTail]

\* Lines 233-234: the loop test and the read of the slot at bufferTail.
GetSentenceRead ==
  /\ ~isrActive
  /\ pc = "GS_loop"
  /\ IF LoopTest
     THEN /\ character' = SlotRead
          /\ readOut' = Append(readOut, SlotRead)
          /\ pc' = "GS_adv"
     ELSE /\ pc' = "GS_check"
          /\ UNCHANGED <<character, readOut>>
  /\ UNCHANGED <<envVars, ringVars, isrActive, bufferOverflowed, bufferHeadCopy,
                 dataValid, frameVars, checksumErrors, lastFixMillis, signalWarning,
                 fixVars, stored, dropped, everDropped, lastRecord, lastOutcome>>

\* Variant of IsStart that takes no character for the start of a sentence.
IsStart_Never(c) == FALSE

\* Line 236: the character starts a sentence.
IsStart(c) == c = Dollar

\* Variant of IsStop without the test of the length.
IsStop_NoLimit(c, counter) == c = CR \/ c = LF

\* Line 244: the character ends the sentence, or the sentence is full.
IsStop(c, counter) == c = CR \/ c = LF \/ counter = NMEAMAXLEN

\* Variant of AfterStop that goes on draining.
AfterStop_Continue == "GS_loop"

\* Line 247: the break leaves the drain loop for the validation.
AfterStop == "GS_check"

\* Lines 235-255: release the slot, then frame the character.
GetSentenceAdvance ==
  /\ ~isrActive
  /\ pc = "GS_adv"
  /\ bufferTail' = (bufferTail + 1) % GPSBUFR1
  /\ IF IsStart(character)
     THEN /\ dataStart' = TRUE
          /\ dataStop' = FALSE
          /\ dataCounter' = 0
          /\ pc' = "GS_loop"
          /\ UNCHANGED sentence
     ELSE IF dataStart
     THEN IF IsStop(character, dataCounter)
          THEN /\ dataStop' = TRUE
               /\ sentence' = [sentence EXCEPT ![dataCounter] = NUL]
               /\ pc' = AfterStop
               /\ UNCHANGED <<dataStart, dataCounter>>
          ELSE /\ sentence' = [sentence EXCEPT ![dataCounter] = character]
               /\ dataCounter' = dataCounter + 1
               /\ pc' = "GS_loop"
               /\ UNCHANGED <<dataStart, dataStop>>
     ELSE /\ pc' = "GS_loop"
          /\ UNCHANGED frameVars
  /\ UNCHANGED <<envVars, gpsDataBuffer, bufferHead, bufferOverflow, isrActive,
                 bufferOverflowed, bufferHeadCopy, character, dataValid,
                 checksumErrors, lastFixMillis, signalWarning, fixVars, histVars>>

\* Variant of AfterGetSentence that ignores the result.
AfterGetSentence_Always(valid) == "L_parse"

\* Line 147: where loop() goes with what getSentence() returned.
AfterGetSentence(valid) == IF valid THEN "L_parse" ELSE "L_stale"

\* The completed record: the characters framed before the terminator.
Record == [i \in 1..dataCounter |-> sentence[i - 1]]

\* Lines 257-302: validate a completed record, then reset the markers.
\* millis() is read d ms after the last reading.
GetSentenceValidate ==
  /\ ~isrActive
  /\ pc = "GS_check"
  /\ IF dataStart /\ dataStop
     THEN \E v \in { Validate(sentence) } :
          /\ sentence' = v.s
          /\ dataValid' = v.valid
          /\ checksumErrors' = IF v.counted THEN checksumErrors + 1 ELSE checksumErrors
          /\ IF v.valid
             THEN \E d \in ClockSteps :
                    /\ elapsed + d <= MaxElapsed
                    /\ now' = Millis(now, d)
                    /\ lastFixMillis' = Millis(now, d)
                    /\ elapsed' = elapsed + d
                    /\ acceptedAt' = elapsed + d
             ELSE UNCHANGED <<now, lastFixMillis, elapsed, acceptedAt>>
          /\ dataStart' = FALSE
          /\ dataStop' = FALSE
          /\ dataCounter' = 0
          /\ lastRecord' = Record
          /\ lastOutcome' = IF v.valid THEN "accepted" ELSE "rejected"
     ELSE /\ lastOutcome' = "none"
          /\ UNCHANGED <<sentence, dataValid, checksumErrors, now, lastFixMillis,
                         elapsed, acceptedAt, dataStart, dataStop, dataCounter,
                         lastRecord>>
  /\ pc' = AfterGetSentence(dataValid')
  /\ UNCHANGED <<stream, sent, rxFifo, TZOFFSET, ringVars, isrActive, bufferOverflowed,
                 bufferHeadCopy, character, signalWarning, fixVars, stored, readOut,
                 dropped, everDropped>>

(***************************************************************************)
(* parseSentence (lines 306-395).                                          *)
(***************************************************************************)
\* The Fix as one record, for the operators below.
Fix ==
  [gpsValid |-> gpsValid, gpsDateD |-> gpsDateD, gpsDateM |-> gpsDateM,
   gpsDateY |-> gpsDateY, gpsTimeH |-> gpsTimeH, gpsTimeM |-> gpsTimeM,
   gpsTimeS |-> gpsTimeS, gpsLatD |-> gpsLatD, gpsLongD |-> gpsLongD,
   gpsSats |-> gpsSats]

\* A read of sentence[i]: past the end of the array (index > NMEAMAXLEN) the
\* value is whatever lies behind it, the byte oob.
Rd(s, i, oob) == IF i <= NMEAMAXLEN THEN s[i] ELSE oob

\* strchr(s + p, c): the index of the first c in the C string at p, -1 for NULL.
RECURSIVE StrChr(_, _, _)
StrChr(s, p, c) ==
  IF s[p] = c THEN p ELSE IF s[p] = NUL THEN -1 ELSE StrChr(s, p + 1, c)

IsDigit(c) == c >= Ord("0") /\ c <= Ord("9")
IsSpace(c) == c = 32 \/ (c >= 9 /\ c <= 13)

RECURSIVE Gcd(_, _)
Gcd(a, b) == IF b = 0 THEN a ELSE Gcd(b, a % b)

\* A double that holds a decimal fraction exactly: num / den in lowest terms.
Rat(n, d) ==
  LET a == IF n < 0 THEN -n ELSE n
      g == Gcd(a, d)
  IN [num |-> n \div g, den |-> d \div g]
RatAdd(x, y) == Rat(x.num * y.den + y.num * x.den, x.den * y.den)
RatNeg(x) == [num |-> -x.num, den |-> x.den]

\* The digits read from index p on: their value and how many there are.
RECURSIVE Digits(_, _, _, _, _)
Digits(s, p, oob, val, cnt) ==
  IF IsDigit(Rd(s, p, oob))
  THEN Digits(s, p + 1, oob, val * 10 + dtoi(Rd(s, p, oob)), cnt + 1)
  ELSE [val |-> val, cnt |-> cnt]

RECURSIVE Pow10(_)
Pow10(k) == IF k = 0 THEN 1 ELSE 10 * Pow10(k - 1)

RECURSIVE SkipSpace(_, _, _)
SkipSpace(s, p, oob) == IF IsSpace(Rd(s, p, oob)) THEN SkipSpace(s, p + 1, oob) ELSE p

\* atof(s + p) for decimal notation: white space, a sign, digits, a point,
\* digits.  (Exponents, hexadecimal, inf and nan are not modelled.)
Atof(s, p, oob) ==
  LET q == SkipSpace(s, p, oob)
      neg == Rd(s, q, oob) = Ord("-")
      r == IF Rd(s, q, oob) = Ord("-") \/ Rd(s, q, oob) = Ord("+") THEN q + 1 ELSE q
      ip == Digits(s, r, oob, 0, 0)
      dot == Rd(s, r + ip.cnt, oob) = Ord(".")
      fp == IF dot THEN Digits(s, r + ip.cnt + 1, oob, 0, 0) ELSE [val |-> 0, cnt |-> 0]
      v == Rat(ip.val * Pow10(fp.cnt) + fp.val, Pow10(fp.cnt))
  IN IF neg THEN RatNeg(v) ELSE v

\* atoi(s + p) stored in a byte (line 383), for digit strings whose value
\* fits an int.
Atoi(s, p, oob) ==
  LET q == SkipSpace(s, p, oob)
      neg == Rd(s, q, oob) = Ord("-")
      r == IF Rd(s, q, oob) = Ord("-") \/ Rd(s, q, oob) = Ord("+") THEN q + 1 ELSE q
      n == Digits(s, r, oob, 0, 0).val
  IN (IF neg THEN -n ELSE n) % 256

\* Variant of TwoDigits that adds the digits without weighting the first.
TwoDigits_Unweighted(s, p, oob) == dtoi(Rd(s, p, oob)) + dtoi(Rd(s, p + 1, oob))

\* Two decimal digits read at p and p + 1 (lines 332-334, 359-361).
TwoDigits(s, p, oob) == dtoi(Rd(s, p, oob)) * 10 + dtoi(Rd(s, p + 1, oob))

\* Lines 332-334, 342, 349, 359-361: the characters read at fixed offsets
\* from pointer in field fieldCounter of a GPRMC sentence.
FixedWidth(fieldCounter) ==
  IF fieldCounter = 1 \/ fieldCounter = 9 THEN 6
  ELSE IF fieldCounter = 3 THEN 2
  ELSE IF fieldCounter = 5 THEN 3
  ELSE 0

\* Lines 331-362: the effect of a non-empty GPRMC field on the Fix.
RmcField(s, pointer, fieldCounter, fix, oob) ==
  IF fieldCounter = 1
  THEN [fix EXCEPT !.gpsTimeH = TwoDigits(s, pointer, oob),
                   !.gpsTimeM = TwoDigits(s, pointer + 2, oob),
                   !.gpsTimeS = TwoDigits(s, pointer + 4, oob)]
  ELSE IF fieldCounter = 2
  THEN [fix EXCEPT !.gpsValid = (CStr(s, pointer) = <<Ord("A")>>)]
  ELSE IF fieldCounter = 3
  THEN [fix EXCEPT !.gpsLatD =
         RatAdd(Rat(TwoDigits(s, pointer, oob), 1),
                LET m == Atof(s, pointer + 2, oob) IN Rat(m.num, m.den * 60))]
  ELSE IF fieldCounter = 4
  THEN IF CStr(s, pointer) = <<Ord("S")>>
       THEN [fix EXCEPT !.gpsLatD = RatNeg(fix.gpsLatD)] ELSE fix
  ELSE IF fieldCounter = 5
  THEN [fix EXCEPT !.gpsLongD =
         RatAdd(Rat(dtoi(Rd(s, pointer, oob)) * 100 + TwoDigits(s, pointer + 1, oob), 1),
                LET m == Atof(s, pointer + 3, oob) IN Rat(m.num, m.den * 60))]
  ELSE IF fieldCounter = 6
  THEN IF CStr(s, pointer) = <<Ord("W")>>
       THEN [fix EXCEPT !.gpsLongD = RatNeg(fix.gpsLongD)] ELSE fix
  ELSE IF fieldCounter = 9
  THEN [fix EXCEPT !.gpsDateD = TwoDigits(s, pointer, oob),
                   !.gpsDateM = TwoDigits(s, pointer + 2, oob),
                   !.gpsDateY = TwoDigits(s, pointer + 4, oob)]
  ELSE fix

\* The do-while loop of lines 323-365.  pointer moves on only inside the
\* branch taken for a non-empty field (line 363).
RECURSIVE RmcLoop(_, _, _, _, _)
RmcLoop(s, pointer, fieldCounter, fix, oob) ==
  LET fc == (fieldCounter + 1) % 256
      nmeaPart == StrChr(s, pointer, Comma)
      s1 == IF nmeaPart # -1 THEN [s EXCEPT ![nmeaPart] = NUL] ELSE s
      nonEmpty == StrLen(s1, pointer) > 0
      fix1 == IF nonEmpty THEN RmcField(s1, pointer, fc, fix, oob) ELSE fix
      pointer1 == IF nonEmpty /\ nmeaPart # -1 THEN nmeaPart + 1 ELSE pointer
  IN IF nmeaPart # -1 THEN RmcLoop(s1, pointer1, fc, fix1, oob)
     ELSE [s |-> s1, fix |-> fix1]

\* The do-while loop of lines 375-387.
RECURSIVE GgaLoop(_, _, _, _, _)
GgaLoop(s, pointer, fieldCounter, fix, oob) ==
  LET fc == (fieldCounter + 1) % 256
      nmeaPart == StrChr(s, pointer, Comma)
      s1 == IF nmeaPart # -1 THEN [s EXCEPT ![nmeaPart] = NUL] ELSE s
      fix1 == IF fc = 7 /\ StrLen(s1, pointer) > 0
              THEN [fix EXCEPT !.gpsSats = IF fix.gpsValid THEN Atoi(s1, pointer, oob) ELSE 0]
              ELSE fix
      pointer1 == IF nmeaPart # -1 THEN nmeaPart + 1 ELSE pointer
  IN IF nmeaPart # -1 THEN GgaLoop(s1, pointer1, fc, fix1, oob)
     ELSE [s |-> s1, fix |-> fix1]

ParseSentence(s, fix, oob) ==
  LET nmeaPart == StrChr(s, 0, Comma) IN
  IF nmeaPart = -1 THEN [s |-> s, fix |-> fix]
  ELSE LET s1 == [s EXCEPT ![nmeaPart] = NUL] IN
       IF CStr(s1, 0) = Bytes(<<"G", "P", "R", "M", "C">>)
       THEN RmcLoop(s1, nmeaPart + 1, 0, fix, oob)
       ELSE IF CStr(s1, 0) = Bytes(<<"G", "P", "G", "G", "A">>)
       THEN GgaLoop(s1, nmeaPart + 1, 0, fix, oob)
       ELSE [s |-> s1, fix |-> fix]

(***************************************************************************)
(* The timezone calculation of loop() (lines 149-193).                     *)
(***************************************************************************)
\* Variant of daysInMonth with 29 days for February.
daysInMonth_Feb29(m, oob) ==
  IF m >= 0 /\ m <= 12
  THEN <<0, 31, 29, 31, 30, 31, 30, 31, 31, 30, 31, 30, 31>>[m + 1]
  ELSE oob

\* Variant of daysInMonth with 31 days for every month.
daysInMonth_All31(m, oob) == IF m >= 1 /\ m <= 12 THEN 31 ELSE IF m = 0 THEN 0 ELSE oob

\* daysInMonth[m] (line 134); an index past the 13 entries reads the byte oob.
daysInMonth(m, oob) ==
  IF m >= 0 /\ m <= 12
  THEN <<0, 31, 28, 31, 30, 31, 30, 31, 31, 30, 31, 30, 31>>[m + 1]
  ELSE oob

\* Variant of Timezone that takes year 00 for a common year.
Timezone_Year00Common(fix, tz, oob) ==
  LET h0 == fix.gpsTimeH + tz
      d0 == fix.gpsDateD
      m0 == fix.gpsDateM
      y0 == fix.gpsDateY
      h == IF h0 >= 24 THEN h0 - 24 ELSE IF h0 < 0 THEN h0 + 24 ELSE h0
      d1 == IF h0 >= 24 THEN d0 + 1 ELSE IF h0 < 0 THEN d0 - 1 ELSE d0
      isLeap == (y0 % 4 = 0 /\ y0 # 0)
      dmy ==
        IF d1 > 0
        THEN LET maxDays == IF m0 = 2 /\ isLeap THEN 29 ELSE daysInMonth(m0, oob) IN
             IF d1 > maxDays
             THEN IF m0 + 1 > 12
                  THEN [d |-> 1, m |-> 1, y |-> IF y0 + 1 > 99 THEN 0 ELSE y0 + 1]
                  ELSE [d |-> 1, m |-> m0 + 1, y |-> y0]
             ELSE [d |-> d1, m |-> m0, y |-> y0]
        ELSE LET m1 == IF m0 - 1 < 1 THEN 12 ELSE m0 - 1
                 y1 == IF m0 - 1 < 1 THEN (IF y0 - 1 < 0 THEN 99 ELSE y0 - 1) ELSE y0
             IN [d |-> IF m1 = 2 /\ isLeap THEN 29 ELSE daysInMonth(m1, oob),
                 m |-> m1, y |-> y1]
  IN [fix EXCEPT !.gpsTimeH = h % 256, !.gpsDateD = dmy.d % 256,
                 !.gpsDateM = dmy.m % 256, !.gpsDateY = dmy.y % 256]

\* Lines 149-190: the hour and the date after the offset tz.
Timezone(fix, tz, oob) ==
  LET h0 == fix.gpsTimeH + tz
      d0 == fix.gpsDateD
      m0 == fix.gpsDateM
      y0 == fix.gpsDateY
      h == IF h0 >= 24 THEN h0 - 24 ELSE IF h0 < 0 THEN h0 + 24 ELSE h0
      d1 == IF h0 >= 24 THEN d0 + 1 ELSE IF h0 < 0 THEN d0 - 1 ELSE d0
      isLeap == (y0 % 4 = 0)
      dmy ==
        IF d1 > 0
        THEN LET maxDays == IF m0 = 2 /\ isLeap THEN 29 ELSE daysInMonth(m0, oob) IN
             IF d1 > maxDays
             THEN IF m0 + 1 > 12
                  THEN [d |-> 1, m |-> 1, y |-> IF y0 + 1 > 99 THEN 0 ELSE y0 + 1]
                  ELSE [d |-> 1, m |-> m0 + 1, y |-> y0]
             ELSE [d |-> d1, m |-> m0, y |-> y0]
        ELSE LET m1 == IF m0 - 1 < 1 THEN 12 ELSE m0 - 1
                 y1 == IF m0 - 1 < 1 THEN (IF y0 - 1 < 0 THEN 99 ELSE y0 - 1) ELSE y0
             IN [d |-> IF m1 = 2 /\ isLeap THEN 29 ELSE daysInMonth(m1, oob),
                 m |-> m1, y |-> y1]
  IN [fix EXCEPT !.gpsTimeH = h % 256, !.gpsDateD = dmy.d % 256,
                 !.gpsDateM = dmy.m % 256, !.gpsDateY = dmy.y % 256]

\* What lies behind an array the program reads past the end of.
OobBytes == {0, 57}

\* loop(), step 2 after getSentence() returned true (lines 148-196).
LoopParse ==
  /\ ~isrActive
  /\ pc = "L_parse"
  /\ \E oob \in OobBytes :
       \E p \in { ParseSentence(sentence, Fix, oob) } :
       \E f \in { Timezone(p.fix, TZOFFSET, oob) } :
          /\ sentence' = p.s
          /\ gpsValid' = f.gpsValid
          /\ gpsDateD' = f.gpsDateD
          /\ gpsDateM' = f.gpsDateM
          /\ gpsDateY' = f.gpsDateY
          /\ gpsTimeH' = f.gpsTimeH
          /\ gpsTimeM' = f.gpsTimeM
          /\ gpsTimeS' = f.gpsTimeS
          /\ gpsLatD' = f.gpsLatD
          /\ gpsLongD' = f.gpsLongD
          /\ gpsSats' = f.gpsSats
  /\ pc' = "L_stale"
  /\ UNCHANGED <<envVars, ringVars, isrActive, bufferOverflowed, bufferHeadCopy,
                 character, dataValid, dataStart, dataStop, dataCounter,
                 checksumErrors, lastFixMillis, signalWarning, histVars>>

\* Variant of IsStale that subtracts without wrapping.
IsStale_NoWrap(t, last) == t - last > GPSLOST

\* Line 198: millis() - lastFixMillis > GPSLOST, in unsigned long.
IsStale(t, last) == ((t - last) % ClockWrap) > GPSLOST

\* loop(), step 3 (lines 198-217).
LoopStale ==
  /\ ~isrActive
  /\ pc = "L_stale"
  /\ \E d \in ClockSteps :
       /\ elapsed + d <= MaxElapsed
       /\ now' = Millis(now, d)
       /\ elapsed' = elapsed + d
       /\ signalWarning' = IsStale(Millis(now, d), lastFixMillis)
  /\ pc' = "L_ovf"
  /\ UNCHANGED <<stream, sent, rxFifo, acceptedAt, TZOFFSET, ringVars, isrActive, bufferOverflowed,
                 bufferHeadCopy, character, dataValid, frameVars, checksumErrors,
                 lastFixMillis, fixVars, histVars>>

(***************************************************************************)
(* The system.                                                             *)
(***************************************************************************)
\* The state after setup(): globals zero-initialised, nothing received.
\* What millis() returns first is left to the specification.
InitProgram ==
  /\ sent = 0
  /\ rxFifo = <<>>
  /\ elapsed = 0
  /\ acceptedAt = -1
  /\ gpsDataBuffer = [i \in 0..GPSBUFR1 - 1 |-> 0]
  /\ bufferHead = 0
  /\ bufferTail = 0
  /\ bufferOverflow = FALSE
  /\ isrActive = FALSE
  /\ pc = "L_ovf"
  /\ bufferOverflowed = FALSE
  /\ bufferHeadCopy = 0
  /\ character = 0
  /\ dataValid = FALSE
  /\ dataStart = FALSE
  /\ dataStop = FALSE
  /\ dataCounter = 0
  /\ sentence = [i \in 0..NMEAMAXLEN |-> 0]
  /\ checksumErrors = 0
  /\ lastFixMillis = 0
  /\ signalWarning = FALSE
  /\ gpsValid = FALSE
  /\ gpsDateD = 0 /\ gpsDateM = 0 /\ gpsDateY = 0
  /\ gpsTimeH = 0 /\ gpsTimeM = 0 /\ gpsTimeS = 0
  /\ gpsLatD = [num |-> 0, den |-> 1]
  /\ gpsLongD = [num |-> 0, den |-> 1]
  /\ gpsSats = 0
  /\ stored = <<>>
  /\ readOut = <<>>
  /\ dropped = 0
  /\ everDropped = FALSE
  /\ lastRecord = <<>>
  /\ lastOutcome = "none"

\* Byte streams the receiver sends in the runs of the whole system.
RingStreams ==
  { <<Dollar>> \o Bytes(<<"A", "*", "4", "1">>) \o <<CR>>
      \o <<Dollar>> \o Bytes(<<"B">>) \o <<LF>>,
    <<Dollar>> \o Bytes(<<"A", "*", "4", "0">>) \o <<CR>>,
    Bytes(<<"a", "b", "c", "d", "e", "f">>) }

Init ==
  /\ InitProgram
  /\ now = 0
  /\ stream \in RingStreams
  /\ TZOFFSET = 0

ISRStep == ISREnter \/ ISRPush \/ ISRReturn

ConsumerStep ==
  \/ LoopOverflowCheck
  \/ GetSentenceSnapshot
  \/ GetSentenceRead
  \/ GetSentenceAdvance
  \/ GetSentenceValidate
  \/ LoopParse
  \/ LoopStale

Next == SerialArrive \/ ISRStep \/ ConsumerStep

Spec == Init /\ [][Next]_vars

\* loop() is re-entered for ever by the Arduino core and the timer keeps
\* firing: neither context stops while it has a step to take.
FairStreams == { <<Dollar>> \o Bytes(<<"A", "*", "4", "1">>) \o <<CR>> }

FairInit ==
  /\ InitProgram
  /\ now = 0
  /\ stream \in FairStreams
  /\ TZOFFSET = 0

FairSpec ==
  FairInit /\ [][Next]_vars /\ WF_vars(ConsumerStep) /\ WF_vars(ISRStep)

(***************************************************************************)
(* Ring buffer properties.                                                 *)
(***************************************************************************)
\* Slots the consumer has released (bufferTail advances), and bytes stored
\* that it has not released yet.
Released == Len(readOut) - (IF pc = "GS_adv" THEN 1 ELSE 0)
Unread == Len(stored) - Released

IsPrefix(a, b) == Len(a) <= Len(b) /\ \A i \in 1..Len(a) : a[i] = b[i]

\* C1: as long as the ISR has never found the buffer full, the bytes
\* getSentence has read out are exactly the first bytes the ISR stored (same
\* order, none skipped, none twice), the ISR has stored every byte it took
\* from the UART, and every stored byte not yet released still sits in its
\* slot, in order from bufferTail.
C1_Fifo ==
  ~everDropped =>
    /\ IsPrefix(readOut, stored)
    /\ stored = SubSeq(stream, 1, sent - Len(rxFifo))
    /\ \A k \in 0..(Unread - 1) :
         gpsDataBuffer[(bufferTail + k) % GPSBUFR1] = stored[Released + k + 1]

\* The ring has wrapped, the ISR ran while the consumer held a byte it had
\* not released, and the whole stream was read out without a drop.
C1_Witness ==
  /\ ~everDropped
  /\ Len(readOut) > GPSBUFR1
  /\ readOut = stream
  /\ pc = "GS_adv"
  /\ Len(stored) = Len(readOut)

\* C3: a push on a full buffer discards the byte, sets bufferOverflow and
\* leaves bufferHead and every slot as they were; a push on a buffer that is
\* not full stores the byte at slot bufferHead, advances bufferHead by one
\* modulo GPSBUFR1 and leaves bufferOverflow as it was.
C3_Push ==
  [][ (isrActive /\ rxFifo # <<>> /\ rxFifo' = Tail(rxFifo)) =>
        IF (bufferHead + 1) % GPSBUFR1 = bufferTail
        THEN /\ bufferOverflow'
             /\ bufferHead' = bufferHead
             /\ gpsDataBuffer' = gpsDataBuffer
             /\ stored' = stored
        ELSE /\ gpsDataBuffer' = [gpsDataBuffer EXCEPT ![bufferHead] = Head(rxFifo)]
             /\ bufferHead' = (bufferHead + 1) % GPSBUFR1
             /\ bufferOverflow' = bufferOverflow
             /\ stored' = Append(stored, Head(rxFifo)) ]_vars

\* A byte was dropped on a full buffer, and later pushes were stored again.
C3_Witness ==
  /\ everDropped
  /\ bufferOverflow
  /\ Len(stored) > GPSBUFR1

\* C4: the flag is up exactly when a byte was dropped since the last
\* read-and-clear; the read-and-clear reports exactly when a byte was
\* dropped since the one before, and clears the flag.
C4_OverflowReport ==
  /\ [](bufferOverflow = (dropped > 0))
  /\ [][ (pc = "L_ovf" /\ pc' # "L_ovf") =>
           /\ bufferOverflowed' = (dropped > 0)
           /\ ~bufferOverflow'
           /\ dropped' = 0 ]_vars

\* Two bytes were dropped between two read-and-clears, and the second
\* read-and-clear reported once.
C4_Witness ==
  /\ bufferOverflowed
  /\ pc = "GS_snap"
  /\ dropped = 0
  /\ Len(stream) - Len(stored) - Len(rxFifo) >= 2
  /\ sent = Len(stream)

\* C5: both indices stay inside the array, the bytes not yet released number
\* (bufferHead - bufferTail) mod GPSBUFR1, at most GPSBUFR1 - 1, and there
\* is none exactly when bufferHead = bufferTail.
C5_Indices ==
  /\ bufferHead \in 0..(GPSBUFR1 - 1)
  /\ bufferTail \in 0..(GPSBUFR1 - 1)
  /\ Unread = (bufferHead - bufferTail) % GPSBUFR1
  /\ Unread <= GPSBUFR1 - 1
  /\ (Unread = 0) <=> (bufferHead = bufferTail)

\* The buffer is full with the write index wrapped below the read index.
C5_Witness ==
  /\ Unread = GPSBUFR1 - 1
  /\ bufferHead < bufferTail

\* Length of the longest stream of the fair runs.
LongestStream ==
  CHOOSE n \in 0..255 :
    /\ \E st \in FairStreams : Len(st) = n
    /\ \A st \in FairStreams : Len(st) <= n

RECURSIVE SeqsUpTo(_, _)
SeqsUpTo(alphabet, n) ==
  IF n = 0 THEN { <<>> }
  ELSE LET shorter == SeqsUpTo(alphabet, n - 1) IN
       shorter \cup { Append(q, c) : q \in { x \in shorter : Len(x) = n - 1 },
                                      c \in alphabet }

\* The state in which getSentence has just framed record r, received as
\* '$' r CR right after setup(): the drain loop has left through the break
\* of line 247 and the validation of line 258 is next.
InitAfterFrame(r) ==
  LET st == <<Dollar>> \o r \o <<CR>>
      n == Len(st)
      lastAt(i) == IF \E k \in 1..n : (k - 1) % GPSBUFR1 = i
                   THEN st[CHOOSE k \in 1..n :
                             /\ (k - 1) % GPSBUFR1 = i
                             /\ \A j \in 1..n : (j - 1) % GPSBUFR1 = i => j <= k]
                   ELSE 0
  IN /\ stream = st
     /\ sent = n
     /\ rxFifo = <<>>
     /\ now = 0
     /\ elapsed = 0
     /\ acceptedAt = -1
     /\ TZOFFSET = 0
     /\ gpsDataBuffer = [i \in 0..GPSBUFR1 - 1 |-> lastAt(i)]
     /\ bufferHead = n % GPSBUFR1
     /\ bufferTail = n % GPSBUFR1
     /\ bufferOverflow = FALSE
     /\ isrActive = FALSE
     /\ pc = "GS_check"
     /\ bufferOverflowed = FALSE
     /\ bufferHeadCopy = n % GPSBUFR1
     /\ character = CR
     /\ dataValid = FALSE
     /\ dataStart = TRUE
     /\ dataStop = TRUE
     /\ dataCounter = Len(r)
     /\ sentence = [i \in 0..NMEAMAXLEN |-> IF i < Len(r) THEN r[i + 1] ELSE 0]
     /\ checksumErrors = 0
     /\ lastFixMillis = 0
     /\ signalWarning = FALSE
     /\ gpsValid = FALSE
     /\ gpsDateD = 0 /\ gpsDateM = 0 /\ gpsDateY = 0
     /\ gpsTimeH = 0 /\ gpsTimeM = 0 /\ gpsTimeS = 0
     /\ gpsLatD = [num |-> 0, den |-> 1]
     /\ gpsLongD = [num |-> 0, den |-> 1]
     /\ gpsSats = 0
     /\ stored = st
     /\ readOut = st
     /\ dropped = 0
     /\ everDropped = FALSE
     /\ lastRecord = <<>>
     /\ lastOutcome = "none"

\* The consumer from the validation on, with nothing more arriving.
CkNext == GetSentenceValidate \/ LoopParse \/ LoopStale

\* Every record over a small alphabet that holds '*', hexadecimal digits
\* and a letter.
CkAlphabet == { Star, Ord("A"), Ord("4"), Ord("1"), Ord("0") }

CkInit == \E r \in SeqsUpTo(CkAlphabet, MaxRecLen) : InitAfterFrame(r)

SpecCk == CkInit /\ [][CkNext]_vars

\* The XOR of the bytes of a sequence: bit k of the result is the parity of
\* the number of bytes that have bit k set.
XorSeq(q) ==
  LET par(w) == (Cardinality({i \in DOMAIN q : (q[i] \div w) % 2 = 1}) % 2) * w
  IN par(1) + par(2) + par(4) + par(8) + par(16) + par(32) + par(64) + par(128)

\* Position of the first '*' of record r, 0 when it has none.
FirstStar(r) ==
  IF \E i \in 1..Len(r) : r[i] = Star
  THEN CHOOSE i \in 1..Len(r) : r[i] = Star /\ \A j \in 1..(i - 1) : r[j] # Star
  ELSE 0

\* The value of a hexadecimal digit, 0 for any other character.
HexVal(c) ==
  IF c \in 48..57 THEN c - 48
  ELSE IF c \in 65..70 THEN c - 55
  ELSE IF c \in 97..102 THEN c - 87
  ELSE 0

\* The acceptance rule of C6: a '*' is present, at least two characters
\* follow the first one, and the XOR of the bytes before it is the byte the
\* first two of them spell in hexadecimal.
SplitAccepts(r) ==
  LET i == FirstStar(r) IN
  /\ i > 0
  /\ Len(r) - i >= 2
  /\ XorSeq(SubSeq(r, 1, i - 1)) = HexVal(r[i + 1]) * 16 + HexVal(r[i + 2])

\* C6 as stated: a completed record is accepted if and only if it passes
\* the split-on-the-first-'*' rule, also when it begins with '*' or holds
\* two consecutive '*'.
C6_AcceptIffSplit ==
  (lastOutcome # "none") => ((lastOutcome = "accepted") <=> SplitAccepts(lastRecord))

(***************************************************************************)
(* The checksum round trip on drawn payloads.                              *)
(***************************************************************************)
\* A hexadecimal digit as the receiver writes it, in either case.
HexDigit(d, upper) == IF d < 10 THEN 48 + d ELSE IF upper THEN 55 + d ELSE 87 + d

\* payload '*' and the payload's XOR as two hexadecimal digits.
WithChecksum(payload, upper) ==
  payload \o <<Star, HexDigit(XorSeq(payload) \div 16, upper),
                     HexDigit(XorSeq(payload) % 16, upper)>>

\* Payload bytes: digits, '+', which differs from '*' in one bit, and ',',
\* which differs from '$' in one bit.
PayAlphabet == { Ord("1"), Ord("3"), Ord("+"), Comma }

\* The longest payload a record can carry with '*' and two digits.
LongPayload == [i \in 1..(NMEAMAXLEN - 3) |-> Ord("G")]

RtInit ==
  \E payload \in SeqsUpTo(PayAlphabet, MaxPayLen) \cup { LongPayload },
     upper \in BOOLEAN :
    InitAfterFrame(WithChecksum(payload, upper))

SpecRt == RtInit /\ [][CkNext]_vars

\* C7 as stated: every record made of a payload (of any length from 0),
\* '*' and the payload's XOR in two hexadecimal digits is accepted.
C7_RoundTrip == (lastOutcome # "none") => (lastOutcome = "accepted")

\* Character c with bit b flipped.
BitWeight(b) == IF b = 0 THEN 1 ELSE IF b = 1 THEN 2 ELSE IF b = 2 THEN 4
                ELSE IF b = 3 THEN 8 ELSE IF b = 4 THEN 16 ELSE IF b = 5 THEN 32
                ELSE IF b = 6 THEN 64 ELSE 128
FlipBit(c, b) ==
  IF (c \div BitWeight(b)) % 2 = 1 THEN c - BitWeight(b) ELSE c + BitWeight(b)

\* Record r in sentence[], as the framer leaves it.
ArrayOf(r) == [i \in 0..NMEAMAXLEN |-> IF i < Len(r) THEN r[i + 1] ELSE 0]

\* Record r with bit b of its i-th byte flipped: is it accepted?
FlipAccepted(r, i, b) == Validate(ArrayOf([r EXCEPT ![i] = FlipBit(r[i], b)])).valid

\* C8 as stated: flipping any one bit of any one payload byte of an
\* accepted record gives a record that is rejected.
C8_AnyFlipRejected ==
  (lastOutcome = "accepted") =>
    \A i \in 1..(FirstStar(lastRecord) - 1), b \in 0..7 :
      ~FlipAccepted(lastRecord, i, b)

\* C8 amended: flipping any one bit of any one payload byte of an accepted
\* record gives a record that is rejected, unless the flip turns the byte
\* into '*' (the record is then split at the new '*') or into '$' (the
\* framer then starts a new record at that byte).
C8_FlipRejectedUnlessStar ==
  (lastOutcome = "accepted") =>
    \A i \in 1..(FirstStar(lastRecord) - 1), b \in 0..7 :
      FlipBit(lastRecord[i], b) \notin { Star, Dollar } =>
        ~FlipAccepted(lastRecord, i, b)

\* An accepted record whose payload holds several bytes, one of them a
\* single bit away from '*'.
C8_Witness ==
  /\ lastOutcome = "accepted"
  /\ FirstStar(lastRecord) > 3
  /\ \E i \in 1..(FirstStar(lastRecord) - 1) : lastRecord[i] = Ord("+")

(***************************************************************************)
(* Rejected records.                                                       *)
(***************************************************************************)
\* C9 as stated: validating a completed record either rejects it, adds
\* exactly one to checksumErrors and does not go on to parseSentence, or
\* accepts it and leaves checksumErrors as it was.
C9_RejectCounted ==
  [][ (pc = "GS_check" /\ dataStart /\ dataStop /\ pc' # "GS_check") =>
        IF lastOutcome' = "rejected"
        THEN checksumErrors' = checksumErrors + 1 /\ pc' # "L_parse"
        ELSE checksumErrors' = checksumErrors ]_vars

\* C10: in a loop() iteration whose record fails validation, and until the
\* next record is validated, no field of the Fix and not lastFixMillis
\* changes, and loop() is never at parseSentence and the timezone
\* calculation.
C10_RejectKeepsFix ==
  /\ []((pc = "L_parse") => (lastOutcome = "accepted"))
  /\ [][ (lastOutcome' = "rejected") =>
           (fixVars' = fixVars /\ lastFixMillis' = lastFixMillis) ]_vars

\* A record was rejected after an accepted one had set the Fix, the clock
\* has moved on since the acceptance, and the iteration is over.
C10_Witness ==
  /\ lastOutcome = "rejected"
  /\ pc = "L_ovf"
  /\ gpsDateD = 31
  /\ acceptedAt >= 0
  /\ elapsed > acceptedAt

(***************************************************************************)
(* Whole sentences.                                                        *)
(***************************************************************************)
\* Most sentences the receiver sends in a run of whole sentences.
MaxSentences == 4

\* The example sentence: fields 7 and 8 empty, the date in field 9.
RmcExample ==
  Bytes(<<"G", "P", "R", "M", "C", ",", "1", "2", "3", "5", "1", "9", ",",
          "A", ",", "4", "8", "0", "7", ".", "0", "3", "8", ",", "N", ",",
          "0", "1", "1", "3", "1", ".", "0", "0", "0", ",", "E", ",", ",",
          ",", "2", "3", "0", "3", "9", "4", ",", ",", ",", "A">>)

\* A GPRMC sentence with fields 1 to 9 filled, south and west.
RmcFull ==
  Bytes(<<"G", "P", "R", "M", "C", ",", "0", "8", "1", "8", "3", "6", ".",
          "5", "0", ",", "A", ",", "3", "7", "5", "1", ".", "6", "5", "0",
          ",", "S", ",", "1", "4", "5", "0", "7", ".", "3", "6", "0", ",",
          "W", ",", "0", ".", "5", ",", "5", "4", ".", "7", ",", "1", "3",
          "0", "9", "9", "8">>)

\* A GPRMC sentence whose validity field is not "A".
RmcVoid ==
  Bytes(<<"G", "P", "R", "M", "C", ",", "2", "3", "5", "9", "5", "9", ",",
          "V", ",", "0", "0", "0", "0", ".", "0", "0", "0", ",", "N", ",",
          "0", "0", "0", "0", "0", ".", "0", "0", "0", ",", "E">>)

\* A GPRMC sentence whose validity field starts with "A" and is longer.
RmcDoubleA ==
  Bytes(<<"G", "P", "R", "M", "C", ",", "0", "0", "0", "0", "0", "0", ",",
          "A", "A", ",", "8", "9", "5", "9", ".", "9", "9", "9", ",", "N",
          ",", "1", "7", "9", "5", "9", ".", "9", "9", "9", ",", "E">>)

\* A GPGGA sentence with "08" in field 7.
GgaEight ==
  Bytes(<<"G", "P", "G", "G", "A", ",", "1", ",", "2", ",", "3", ",", "4",
          ",", "5", ",", "6", ",", "0", "8", ",", "9">>)

\* A GPGGA sentence that ends with "7" in field 7.
GgaSeven ==
  Bytes(<<"G", "P", "G", "G", "A", ",", "1", ",", "2", ",", "3", ",", "4",
          ",", "5", ",", "6", ",", "7">>)

\* A GPGGA sentence with an empty field 7.
GgaEmpty ==
  Bytes(<<"G", "P", "G", "G", "A", ",", "1", ",", "2", ",", "3", ",", "4",
          ",", "5", ",", "6", ",", ",", "9">>)

\* A GPGGA sentence with fewer than seven fields.
GgaShort ==
  Bytes(<<"G", "P", "G", "G", "A", ",", "1", ",", "2">>)

\* A sentence of a type the program does not decode.
GsaOther ==
  Bytes(<<"G", "P", "G", "S", "A", ",", "A", ",", "3">>)

\* A sentence with no ','.
TxtNoComma ==
  Bytes(<<"G", "P", "T", "X", "T">>)

\* Sentences the receiver has sent so far.
Delivered == Cardinality({ i \in DOMAIN stream : stream[i] = Dollar })

\* The receiver sends '$' r CR while the framer is idle and the buffer is
\* empty; the ISR stores every byte (lines 75-86) and the drain loop of
\* getSentence reads every byte no later than the next one arrives (lines
\* 233-256), up to the break of line 247.  The steps in between are taken
\* together: this is the state in which the validation of line 258 is next.
DeliverRecord(r) ==
  LET st == <<Dollar>> \o r \o <<CR>>
      n == Len(st)
      slot(k) == (bufferHead + k - 1) % GPSBUFR1
      lastIn(i) == CHOOSE k \in 1..n : slot(k) = i /\ \A j \in 1..n : slot(j) = i => j <= k
  IN /\ ~isrActive
     /\ pc = "GS_snap"
     /\ rxFifo = <<>>
     /\ sent = Len(stream)
     /\ bufferHead = bufferTail
     /\ ~dataStart
     /\ Len(r) <= NMEAMAXLEN
     /\ Delivered < MaxSentences
     /\ stream' = stream \o st
     /\ sent' = sent + n
     /\ gpsDataBuffer' = [i \in 0..GPSBUFR1 - 1 |->
                            IF \E k \in 1..n : slot(k) = i THEN st[lastIn(i)]
                            ELSE gpsDataBuffer[i]]
     /\ bufferHead' = (bufferHead + n) % GPSBUFR1
     /\ bufferTail' = (bufferHead + n) % GPSBUFR1
     /\ bufferHeadCopy' = (bufferHead + n) % GPSBUFR1
     /\ character' = CR
     /\ dataValid' = FALSE
     /\ dataStart' = TRUE
     /\ dataStop' = TRUE
     /\ dataCounter' = Len(r)
     /\ sentence' = [i \in 0..NMEAMAXLEN |->
                       IF i < Len(r) THEN r[i + 1]
                       ELSE IF i = Len(r) THEN NUL ELSE sentence[i]]
     /\ stored' = stored \o st
     /\ readOut' = readOut \o st
     /\ pc' = "GS_check"
     /\ UNCHANGED <<rxFifo, now, elapsed, acceptedAt, TZOFFSET, bufferOverflow,
                    isrActive, bufferOverflowed, checksumErrors, lastFixMillis,
                    signalWarning, fixVars, dropped, everDropped, lastRecord,
                    lastOutcome>>

\* loop() from one polling of the buffer to the next.
LoopRest == LoopOverflowCheck \/ GetSentenceValidate \/ LoopParse \/ LoopStale

(***************************************************************************)
(* Decoding of GPRMC and GPGGA sentences.                                  *)
(***************************************************************************)
\* Timezone offsets the program is built with.
TzOffsets == { -5, 0, 2 }

\* Most sentences sent in a run that decodes them.
MaxFixSentences == 2

\* Sentences sent in the runs that decode them.
FixRecords ==
  { WithChecksum(p, TRUE) :
      p \in { RmcExample, RmcFull, RmcVoid, RmcDoubleA, GgaEight, GsaOther,
              TxtNoComma } }

FixInit ==
  /\ InitProgram
  /\ now = 0
  /\ stream = <<>>
  /\ TZOFFSET \in TzOffsets

FixNext ==
  \/ Delivered < MaxFixSentences /\ \E r \in FixRecords : DeliverRecord(r)
  \/ LoopRest

SpecFix == FixInit /\ [][FixNext]_vars

\* The text of record r before its first '*', and its comma-separated
\* fields: field 0 is the sentence type.
PayloadOf(r) == SubSeq(r, 1, FirstStar(r) - 1)
CommasOf(q) == { i \in 1..Len(q) : q[i] = Comma }
CommaAt(q, k) ==
  IF k = 0 THEN 0
  ELSE IF k > Cardinality(CommasOf(q)) THEN Len(q) + 1
  ELSE CHOOSE i \in CommasOf(q) : Cardinality({ j \in CommasOf(q) : j < i }) = k - 1
FieldOf(q, k) ==
  IF k > Cardinality(CommasOf(q)) THEN <<>>
  ELSE SubSeq(q, CommaAt(q, k) + 1, CommaAt(q, k + 1) - 1)
IsRmc(r) == FieldOf(PayloadOf(r), 0) = Bytes(<<"G", "P", "R", "M", "C">>)
IsGga(r) == FieldOf(PayloadOf(r), 0) = Bytes(<<"G", "P", "G", "G", "A">>)

\* The number written by the two digits of f at i and i + 1.
Pair(f, i) == (f[i] - 48) * 10 + (f[i + 1] - 48)
SixDigits(f) == Len(f) >= 6 /\ \A i \in 1..6 : f[i] >= 48 /\ f[i] <= 57

\* loop() has just decoded the accepted record lastRecord.
JustParsed == pc = "L_stale" /\ lastOutcome = "accepted"

IsAngle(f, nd) ==
  /\ Len(f) >= nd + 2
  /\ \A i \in 1..(nd + 2) : f[i] >= 48 /\ f[i] <= 57
  /\ Pair(f, nd + 1) < 60
  /\ Len(f) > nd + 2 =>
       /\ f[nd + 3] = Ord(".")
       /\ \A i \in (nd + 4)..Len(f) : f[i] >= 48 /\ f[i] <= 57

\* The whole part of the magnitude of a decoded angle.
WholeDegrees(x) == (IF x.num < 0 THEN -x.num ELSE x.num) \div x.den

\* C12: after an accepted GPRMC sentence whose fields 1 to 6 are non-empty
\* and well-formed has been decoded, minute and second (and, with timezone
\* offset 0, the hour) are the digit pairs of field 1, gpsValid says whether
\* field 2 is exactly "A", the whole degrees of latitude and longitude are
\* the first two digits of field 3 and the first three of field 5, and
\* latitude is negative only for "S" in field 4, longitude only for "W" in
\* field 6.
C12_RmcFields ==
  LET q == PayloadOf(lastRecord)
      f(k) == FieldOf(q, k)
  IN ( /\ JustParsed
       /\ IsRmc(lastRecord)
       /\ \A k \in 1..6 : f(k) # <<>>
       /\ SixDigits(f(1))
       /\ IsAngle(f(3), 2) /\ IsAngle(f(5), 3) )
     => /\ TZOFFSET = 0 => gpsTimeH = Pair(f(1), 1)
        /\ gpsTimeM = Pair(f(1), 3)
        /\ gpsTimeS = Pair(f(1), 5)
        /\ gpsValid = (f(2) = <<Ord("A")>>)
        /\ WholeDegrees(gpsLatD) = Pair(f(3), 1)
        /\ WholeDegrees(gpsLongD) = (f(5)[1] - 48) * 100 + Pair(f(5), 2)
        /\ IF f(4) = <<Ord("S")>> THEN gpsLatD.num <= 0 ELSE gpsLatD.num >= 0
        /\ IF f(6) = <<Ord("W")>> THEN gpsLongD.num <= 0 ELSE gpsLongD.num >= 0

\* A sentence with fractional seconds, south and west, has been decoded
\* after one that was north and east.
C12_Witness ==
  /\ JustParsed
  /\ lastRecord = WithChecksum(RmcFull, TRUE)
  /\ gpsTimeS = 36
  /\ gpsLatD.num < 0 /\ gpsLongD.num < 0
  /\ Delivered > 1

(***************************************************************************)
(* The satellite count.                                                    *)
(***************************************************************************)
\* Short GPRMC sentences that set and clear the validity flag.
RmcShortA ==
  Bytes(<<"G", "P", "R", "M", "C", ",", "1", "2", "3", "5", "1", "9", ",", "A">>)
RmcShortV ==
  Bytes(<<"G", "P", "R", "M", "C", ",", "1", "2", "3", "5", "1", "9", ",", "V">>)

SatRecords ==
  { WithChecksum(p, TRUE) :
      p \in { RmcShortA, RmcShortV, GgaEight, GgaSeven, GgaEmpty, GgaShort } }

SatInit ==
  /\ InitProgram
  /\ now = 0
  /\ stream = <<>>
  /\ TZOFFSET = 0

SatNext == (\E r \in SatRecords : DeliverRecord(r)) \/ LoopRest

SpecSat == SatInit /\ [][SatNext]_vars

\* Field f is one or two decimal digits; the number they write.
IsCount(f) == Len(f) \in {1, 2} /\ \A i \in 1..Len(f) : f[i] >= 48 /\ f[i] <= 57
CountOf(f) == IF Len(f) = 1 THEN f[1] - 48 ELSE Pair(f, 1)

\* C13 as stated: after an accepted GPGGA sentence has been decoded, gpsSats
\* is the number in field 7 when gpsValid is true and field 7 is one or two
\* digits, and gpsSats is 0 when gpsValid is false, whatever field 7 holds
\* and also when it is empty or missing.
C13_SatsOrZero ==
  LET f7 == FieldOf(PayloadOf(lastRecord), 7) IN
  (JustParsed /\ IsGga(lastRecord)) =>
    IF gpsValid THEN IsCount(f7) => gpsSats = CountOf(f7)
    ELSE gpsSats = 0

(***************************************************************************)
(* Sentences that are not decoded, and the timezone calculation.           *)
(***************************************************************************)
\* loop() decodes the accepted record lastRecord in this step.
ParseStep == pc = "L_parse" /\ pc' = "L_stale"

\* Record r has no ',' or a type other than GPRMC and GPGGA.
NotDecoded(r) == CommasOf(PayloadOf(r)) = {} \/ (~IsRmc(r) /\ ~IsGga(r))

\* C14 as stated: the loop() iteration that accepts a sentence with no ','
\* or of a type other than GPRMC and GPGGA leaves every field of the Fix as
\* it was.
C14_OtherTypeKeepsFix ==
  [][ (ParseStep /\ NotDecoded(lastRecord)) => fixVars' = fixVars ]_vars

\* C15 as stated: the timezone calculation runs for accepted GPRMC
\* sentences only: the loop() iteration that accepts a sentence of any other
\* type, GPGGA included, leaves the hour and the date as they were, so an
\* hour that was converted is not converted again.
C15_TimezoneOncePerRmc ==
  [][ (ParseStep /\ (~IsRmc(lastRecord) \/ CommasOf(PayloadOf(lastRecord)) = {}))
        => /\ gpsTimeH' = gpsTimeH
           /\ gpsDateD' = gpsDateD /\ gpsDateM' = gpsDateM /\ gpsDateY' = gpsDateY ]_vars

(***************************************************************************)
(* The timezone calculation on drawn dates, hours and offsets.             *)
(***************************************************************************)
\* Days of month m in year y of the century 2000-2099.
DaysIn(m, y) ==
  IF m \in {4, 6, 9, 11} THEN 30
  ELSE IF m = 2 THEN (IF y % 4 = 0 THEN 29 ELSE 28)
  ELSE 31

\* Years, dates (the first two and the last two days of every month), hours
\* and offsets drawn.
TzYears == { 0, 4, 99 }
TzDates ==
  { [d |-> d, m |-> m, y |-> y] :
      d \in 1..31, m \in 1..12, y \in TzYears } \cap
  { dt \in [d : 1..31, m : 1..12, y : TzYears] :
      dt.d \in { 1, 2, DaysIn(dt.m, dt.y) - 1, DaysIn(dt.m, dt.y) } }
TzHours == { 0, 23 }
TzShifts == { -24, -5, -1, 1, 2, 24 }

\* Two decimal digits.
Dec2(n) == << 48 + (n \div 10), 48 + (n % 10) >>

\* A GPRMC sentence with hour h in field 1 and date dt in field 9, all the
\* fields between them filled.
TzRecord(h, dt) ==
  Bytes(<<"G", "P", "R", "M", "C", ",">>) \o Dec2(h)
    \o Bytes(<<"0", "0", "0", "0", ",", "A", ",", "0", "0", "0", "0", ".", "0",
               ",", "N", ",", "0", "0", "0", "0", "0", ".", "0", ",", "E", ",",
               "0", ",", "0", ",">>)
    \o Dec2(dt.d) \o Dec2(dt.m) \o Dec2(dt.y)

TzRecords == { WithChecksum(TzRecord(h, dt), TRUE) : h \in TzHours, dt \in TzDates }

TzInit ==
  /\ InitProgram
  /\ now = 0
  /\ stream = <<>>
  /\ TZOFFSET \in TzShifts

TzNext ==
  \/ Delivered < 1 /\ \E r \in TzRecords : DeliverRecord(r)
  \/ LoopRest

SpecTz == TzInit /\ [][TzNext]_vars

\* The hour and the date written in the GPRMC record r.
HourIn(r) == Pair(FieldOf(PayloadOf(r), 1), 1)
DateIn(r) ==
  LET f == FieldOf(PayloadOf(r), 9) IN [d |-> Pair(f, 1), m |-> Pair(f, 3), y |-> Pair(f, 5)]
ValidDate(dt) ==
  dt.m \in 1..12 /\ dt.y \in 0..99 /\ dt.d >= 1 /\ dt.d <= DaysIn(dt.m, dt.y)

\* The calendar day after and the calendar day before dt, years 99 and 00
\* adjacent.
NextDay(dt) ==
  IF dt.d < DaysIn(dt.m, dt.y) THEN [dt EXCEPT !.d = dt.d + 1]
  ELSE IF dt.m < 12 THEN [d |-> 1, m |-> dt.m + 1, y |-> dt.y]
  ELSE [d |-> 1, m |-> 1, y |-> (dt.y + 1) % 100]
PrevDay(dt) ==
  IF dt.d > 1 THEN [dt EXCEPT !.d = dt.d - 1]
  ELSE IF dt.m > 1 THEN [d |-> DaysIn(dt.m - 1, dt.y), m |-> dt.m - 1, y |-> dt.y]
  ELSE [d |-> 31, m |-> 12, y |-> (dt.y + 99) % 100]

\* The date of the Fix.
FixDate == [d |-> gpsDateD, m |-> gpsDateM, y |-> gpsDateY]

\* C16: after a GPRMC sentence with a valid date and hour + offset in 24..47
\* has been decoded, the hour is hour + offset - 24 and the date is the
\* next calendar day.
C16_ForwardRollover ==
  ( /\ JustParsed
    /\ IsRmc(lastRecord)
    /\ ValidDate(DateIn(lastRecord))
    /\ HourIn(lastRecord) + TZOFFSET >= 24
    /\ HourIn(lastRecord) + TZOFFSET <= 47 )
  => /\ gpsTimeH = HourIn(lastRecord) + TZOFFSET - 24
     /\ FixDate = NextDay(DateIn(lastRecord))

\* Hour 23 with offset +2 on 28/02/00 has become 01 on 29/02/00.
C16_Witness ==
  /\ JustParsed
  /\ TZOFFSET = 2
  /\ HourIn(lastRecord) = 23
  /\ DateIn(lastRecord) = [d |-> 28, m |-> 2, y |-> 0]
  /\ gpsTimeH = 1
  /\ FixDate = [d |-> 29, m |-> 2, y |-> 0]

\* C17: after a GPRMC sentence with a valid date and hour + offset in
\* -24..-1 has been decoded, the hour is hour + offset + 24 and the date is
\* the previous calendar day.
C17_BackwardRollover ==
  ( /\ JustParsed
    /\ IsRmc(lastRecord)
    /\ ValidDate(DateIn(lastRecord))
    /\ HourIn(lastRecord) + TZOFFSET >= -24
    /\ HourIn(lastRecord) + TZOFFSET < 0 )
  => /\ gpsTimeH = HourIn(lastRecord) + TZOFFSET + 24
     /\ FixDate = PrevDay(DateIn(lastRecord))

\* Hour 00 with offset -5 on 01/01/00 has become 19 on 31/12/99.
C17_Witness ==
  /\ JustParsed
  /\ TZOFFSET = -5
  /\ HourIn(lastRecord) = 0
  /\ DateIn(lastRecord) = [d |-> 1, m |-> 1, y |-> 0]
  /\ gpsTimeH = 19
  /\ FixDate = [d |-> 31, m |-> 12, y |-> 99]

(***************************************************************************)
(* The age of the last accepted record.                                    *)
(***************************************************************************)
\* Values of millis() when loop() first runs: far from the wrap, and one
\* threshold or one millisecond before it.
ClockStarts == { 0, ClockWrap - GPSLOST - 1, ClockWrap - 1 }

\* An accepted and a rejected record.
ClockRecords ==
  { Bytes(<<"A", "*", "4", "1">>), Bytes(<<"A", "*", "4", "0">>) }

ClockInit ==
  /\ InitProgram
  /\ now \in ClockStarts
  /\ stream = <<>>
  /\ TZOFFSET = 0

\* loop() polling a buffer that is empty or receiving whole sentences.
ClockNext ==
  \/ \E r \in ClockRecords : DeliverRecord(r)
  \/ LoopOverflowCheck
  \/ GetSentenceSnapshot
  \/ GetSentenceRead
  \/ GetSentenceValidate
  \/ LoopParse
  \/ LoopStale

SpecClock == ClockInit /\ [][ClockNext]_vars

\* getSentence returns in this step, having accepted a record.
AcceptStep == pc = "GS_check" /\ pc' # "GS_check" /\ lastOutcome' = "accepted"

\* loop() evaluates the staleness test in this step.
StaleStep == pc = "L_stale" /\ pc' = "L_ovf"

\* C18: lastFixMillis changes only when a record is accepted and is then
\* the value of the clock; the staleness test gives true exactly when the
\* clock minus lastFixMillis, modulo the width of the clock, is above
\* GPSLOST; once a record has been accepted that is exactly when more than
\* GPSLOST ms have passed since the last acceptance, whether or not the
\* clock has wrapped in between.
C18_Freshness ==
  /\ [][ lastFixMillis' # lastFixMillis => AcceptStep ]_vars
  /\ [][ AcceptStep => lastFixMillis' = now' ]_vars
  /\ [][ StaleStep =>
           signalWarning' =
             ((now' + ClockWrap - lastFixMillis') % ClockWrap > GPSLOST) ]_vars
  /\ [][ (StaleStep /\ acceptedAt >= 0) =>
           signalWarning' = (elapsed' - acceptedAt > GPSLOST) ]_vars

\* The clock has wrapped since the last acceptance, more than GPSLOST ms
\* ago, and the staleness test has given true.
C18_Witness ==
  /\ pc = "L_ovf"
  /\ acceptedAt >= 0
  /\ now < lastFixMillis
  /\ elapsed - acceptedAt > GPSLOST
  /\ signalWarning

(***************************************************************************)
(* The framer.                                                             *)
(***************************************************************************)
\* Streams for the framer: bytes ahead of the first '$', a '$' inside a
\* sentence, bytes between two sentences; and a sentence of 81 characters
\* followed by a short one.
FrameStreams ==
  { Bytes(<<"a", "$", "c", "$", "A", "*", "4", "1">>) \o <<CR, LF>>
      \o Bytes(<<"x", "$", "B">>) \o <<LF>>,
    <<Dollar>> \o [i \in 1..(NMEAMAXLEN + 2) |-> Ord("G")] \o <<CR>>
      \o Bytes(<<"$", "A", "*", "4", "1">>) \o <<CR>> }

FrameInit ==
  /\ InitProgram
  /\ now = 0
  /\ stream \in FrameStreams
  /\ TZOFFSET = 0

\* The receiver sends no faster than loop() reads: a byte reaches the UART
\* once every byte before it has left the ring, so that no byte is dropped
\* and the framer sees the stream whole.
SerialArriveIdle ==
  /\ rxFifo = <<>>
  /\ ~isrActive
  /\ bufferHead = bufferTail
  /\ SerialArrive

FrameNext == SerialArriveIdle \/ ISRStep \/ ConsumerStep

SpecFrame == FrameInit /\ [][FrameNext]_vars

\* The position of the last '$' of q, 0 when q has none.
LastDollar(q) ==
  IF \E i \in 1..Len(q) : q[i] = Dollar
  THEN CHOOSE i \in 1..Len(q) : q[i] = Dollar /\ \A j \in (i + 1)..Len(q) : q[j] # Dollar
  ELSE 0

\* The framer takes the character it has read in this step.
FrameStep == pc = "GS_adv" /\ pc' # "GS_adv"

\* C19: a '$' puts the cursor at 0 and the framer in the accumulating state,
\* whatever state it was in; a character other than '$' taken while the
\* framer is idle changes nothing of the framer; and whenever the framer is
\* accumulating or has completed a record, the characters below the cursor
\* are exactly those read after the most recent '$'.
C19_StartRule ==
  /\ [][ (FrameStep /\ character = Dollar) =>
           (dataStart' /\ ~dataStop' /\ dataCounter' = 0) ]_vars
  /\ [][ (FrameStep /\ character # Dollar /\ ~dataStart) =>
           UNCHANGED frameVars ]_vars
  /\ []( (dataStart /\ pc # "GS_adv") =>
           /\ LastDollar(readOut) > 0
           /\ Record = SubSeq(readOut, LastDollar(readOut) + 1,
                              Len(readOut) - (IF dataStop THEN 1 ELSE 0)) )

\* The record "A*41" is complete: it was read after bytes that came ahead
\* of any '$' and after a sentence that a second '$' cut short.
C19_Witness ==
  /\ pc = "GS_check"
  /\ dataStart /\ dataStop
  /\ Record = Bytes(<<"A", "*", "4", "1">>)
  /\ readOut = Bytes(<<"a", "$", "c", "$", "A", "*", "4", "1">>) \o <<CR>>

\* The framer takes a character that ends the record: it is accumulating,
\* the character is not '$', and it is CR, LF or finds the cursor at
\* NMEAMAXLEN.
StopStep ==
  /\ FrameStep
  /\ dataStart
  /\ character # Dollar
  /\ (character = CR \/ character = LF \/ dataCounter = NMEAMAXLEN)

\* getSentence() finds a completed record and validates it.
CheckStep == pc = "GS_check" /\ pc' # "GS_check" /\ dataStart /\ dataStop

\* C20: while the framer accumulates, CR, LF, or any character other than
\* '$' that finds the cursor at NMEAMAXLEN completes the record and puts NUL
\* at the cursor; the cursor is never above NMEAMAXLEN and a framer step
\* writes sentence[] only at the cursor; a record cut at NMEAMAXLEN is the
\* first NMEAMAXLEN characters after its '$', every completed record is
\* validated, and after it the framer is idle with nothing accumulated.
C20_StopRule ==
  /\ [][ StopStep =>
           /\ dataStop' /\ dataStart'
           /\ dataCounter' = dataCounter
           /\ sentence'[dataCounter] = NUL
           /\ pc' = "GS_check" ]_vars
  /\ [](dataCounter \in 0..NMEAMAXLEN /\ DOMAIN sentence = 0..NMEAMAXLEN)
  /\ [][ FrameStep =>
           /\ dataCounter \in 0..NMEAMAXLEN
           /\ \A i \in 0..NMEAMAXLEN :
                 i # dataCounter => sentence'[i] = sentence[i] ]_vars
  /\ []( (pc = "GS_check" /\ dataStop /\ dataCounter = NMEAMAXLEN) =>
           /\ LastDollar(readOut) > 0
           /\ Len(readOut) = LastDollar(readOut) + NMEAMAXLEN + 1
           /\ Record = SubSeq(readOut, LastDollar(readOut) + 1,
                              LastDollar(readOut) + NMEAMAXLEN) )
  /\ [][ CheckStep =>
           /\ lastRecord' = Record
           /\ lastOutcome' \in {"accepted", "rejected"}
           /\ ~dataStart' /\ ~dataStop' /\ dataCounter' = 0 ]_vars
  /\ [](~dataStart => (~dataStop /\ dataCounter = 0))

\* The sentence of 81 characters was cut to its first 79 and validated; the
\* two characters after the cut and the CR have been read with the framer
\* idle.
C20_Witness ==
  /\ lastRecord = [i \in 1..NMEAMAXLEN |-> Ord("G")]
  /\ Len(readOut) = NMEAMAXLEN + 4
  /\ ~dataStart
  /\ dataCounter = 0

(***************************************************************************)
(* The drain loop.                                                         *)
(***************************************************************************)
\* getSentence() has returned: loop() is at the statement that follows the
\* call.
Returned == pc = "L_parse" \/ pc = "L_stale"

\* C21: when a call of getSentence has returned, bufferTail equals the
\* snapshot of bufferHead the call took, whether or not the call completed
\* a record.
C21_DrainsAll == Returned => bufferTail = bufferHeadCopy

(***************************************************************************)
(* The timezone calculation on every date field 9 can hold.                *)
(***************************************************************************)
\* Days, months and years drawn from the 0..99 two digits can write.
CalDays == { 0, 1, 29, 31, 32, 99 }
CalMonths == { 0, 2, 4, 12, 13, 99 }
CalYears == { 0, 1, 99 }
CalDates == [d : CalDays, m : CalMonths, y : CalYears]
CalRecords ==
  { WithChecksum(TzRecord(h, dt), TRUE) : h \in TzHours, dt \in CalDates }
    \cup { WithChecksum(GsaOther, TRUE) }

CalInit ==
  /\ InitProgram
  /\ now = 0
  /\ stream = <<>>
  /\ TZOFFSET \in TzOffsets

CalNext ==
  \/ Delivered < 1 /\ \E r \in CalRecords : DeliverRecord(r)
  \/ LoopRest

SpecCal == CalInit /\ [][CalNext]_vars

\* The Fix as parseSentence() leaves it in this step, before the timezone
\* calculation.
Decoded(oob) == ParseSentence(sentence, Fix, oob).fix

\* C22: when the hour parseSentence() left in the Fix plus the offset is
\* within 0..23, the timezone calculation writes back the day, the month
\* and the year parseSentence() left in the Fix, for every date field 9 can
\* hold and for the Fix of the initial state.
C22_NoRolloverKeepsDate ==
  [][ ParseStep =>
        \A oob \in OobBytes :
          \E p \in { Decoded(oob) } :
            (p.gpsTimeH + TZOFFSET \in 0..23) =>
              /\ gpsDateD' = p.gpsDateD
              /\ gpsDateM' = p.gpsDateM
              /\ gpsDateY' = p.gpsDateY ]_vars

(***************************************************************************)
(* Termination of getSentence().                                           *)
(***************************************************************************)
\* A call of getSentence() is between its snapshot and its validation.
InCall == pc = "GS_loop" \/ pc = "GS_adv" \/ pc = "GS_check"

\* Slots from bufferTail up to the snapshot, and up to the write index.
Remaining == (bufferHeadCopy - bufferTail) % GPSBUFR1
Pending == (bufferHead - bufferTail) % GPSBUFR1

\* C23: every call of getSentence returns; during a call the slots left up
\* to the snapshot are slots the ISR has filled, at most GPSBUFR1 - 1 of
\* them, their number only goes down, by one for each slot released, and a
\* push of the ISR leaves it and the snapshot alone (so what is pushed after
\* the snapshot stays in the buffer); and the ISR always has a step to
\* take when a byte is available, wherever the consumer is.
C23_CallTerminates ==
  /\ InCall ~> Returned
  /\ [](InCall => (Remaining <= Pending /\ Pending <= GPSBUFR1 - 1))
  /\ [][ (InCall /\ InCall') =>
           /\ bufferHeadCopy' = bufferHeadCopy
           /\ \/ Remaining' = Remaining /\ bufferTail' = bufferTail
              \/ Remaining' = Remaining - 1 /\ bufferTail' # bufferTail ]_vars
  /\ []((rxFifo # <<>>) => ENABLED ISRStep)
  /\ [](isrActive => ENABLED ISRStep)

\* A call has returned with bufferTail at its snapshot while bytes the ISR
\* pushed after the snapshot wait in the buffer.
C23_Witness ==
  /\ Returned
  /\ bufferTail = bufferHeadCopy
  /\ bufferHead # bufferHeadCopy
  /\ Len(readOut) > 0

(***************************************************************************)
(* Recovery from overflow.                                                 *)
(***************************************************************************)
\* The buffer holds GPSBUFR1 - 1 bytes: the next push is refused.
Full == Pending = GPSBUFR1 - 1

\* The ISR takes one byte from the UART in this step.
PushStep == isrActive /\ rxFifo # <<>> /\ rxFifo' = Tail(rxFifo)

\* C24: with or without bytes dropped, the bytes read out are the first
\* bytes stored, in order, and the stored bytes not yet released sit in
\* their slots; a push is refused only when the buffer is full, and is
\* stored otherwise; the buffer is not full once bufferTail has advanced;
\* and a full buffer does not stay full while loop() keeps running.
C24_Recoverable ==
  /\ [](/\ IsPrefix(readOut, stored)
        /\ \A k \in 0..(Unread - 1) :
             gpsDataBuffer[(bufferTail + k) % GPSBUFR1] = stored[Released + k + 1])
  /\ [][ PushStep =>
           IF Full
           THEN stored' = stored /\ dropped' = dropped + 1
           ELSE stored' = Append(stored, Head(rxFifo)) /\ dropped' = dropped ]_vars
  /\ [][ (bufferTail' # bufferTail) => ~Full' ]_vars
  /\ Full ~> ~Full

\* A byte was dropped, the byte that followed it was stored, and all the
\* stored bytes have been read out.
C24_Witness ==
  /\ everDropped
  /\ sent = Len(stream)
  /\ readOut = stored
  /\ Len(stored) < Len(stream)
  /\ stored # <<>>
  /\ stored[Len(stored)] = stream[Len(stream)]

(***************************************************************************)
(* The framer and the split of the stream over calls.                      *)
(***************************************************************************)
\* A stream with a sentence longer than the buffer, a second sentence that
\* fits in the buffer together with the end of the first, and a third.
ChunkStreams ==
  { <<Dollar>> \o Bytes(<<"A", "*", "4", "1">>) \o <<CR, Dollar, LF, Dollar>>
      \o Bytes(<<"B">>) \o <<CR>> }

ChunkInit ==
  /\ InitProgram
  /\ now = 0
  /\ stream \in ChunkStreams
  /\ TZOFFSET = 0

SpecChunk == ChunkInit /\ [][Next]_vars

\* The bytes q framed in one pass, with the validation at each terminator:
\* whether a sentence is open, its characters so far, the completed records
\* in order.
RECURSIVE OnePass(_, _, _)
OnePass(q, i, st) ==
  IF i > Len(q) THEN st
  ELSE OnePass(q, i + 1,
         IF q[i] = Dollar THEN [st EXCEPT !.open = TRUE, !.cur = <<>>]
         ELSE IF ~st.open THEN st
         ELSE IF q[i] = CR \/ q[i] = LF \/ Len(st.cur) = NMEAMAXLEN
         THEN [open |-> FALSE, cur |-> <<>>, done |-> Append(st.done, st.cur)]
         ELSE [st EXCEPT !.cur = Append(st.cur, q[i])])
Framed(q) == OnePass(q, 1, [open |-> FALSE, cur |-> <<>>, done |-> <<>>])

\* The bytes the framer has taken: those read, less the one read and not
\* yet framed.
Taken == SubSeq(readOut, 1, Released)

\* C25: while no byte has been dropped, however the stream is split over
\* calls and snapshots: the bytes read are the first bytes of the stream;
\* the framer is where one pass over the bytes taken leaves it (the same
\* open sentence, or the record just completed); each completed record is
\* validated, with the verdict its text alone decides, before another byte
\* is read, so none is skipped or merged; and the last record validated is
\* the last one the pass completes.
C25_ChunkingIndependent ==
  /\ [](~everDropped => IsPrefix(readOut, stream))
  /\ []( (~everDropped /\ ~dataStop) =>
           \E f \in { Framed(Taken) } :
             /\ dataStart = f.open
             /\ dataStart => Record = f.cur
             /\ f.done # <<>> => lastRecord = f.done[Len(f.done)]
             /\ f.done = <<>> => lastRecord = <<>> )
  /\ []( (~everDropped /\ dataStop) =>
           \E f \in { Framed(Taken) } :
             /\ pc = "GS_check" /\ dataStart
             /\ ~f.open /\ f.done # <<>>
             /\ Record = f.done[Len(f.done)] )
  /\ [][ (~everDropped /\ readOut' # readOut) => ~dataStop ]_vars
  /\ [][ (~everDropped /\ CheckStep) =>
           /\ lastRecord' = Record
           /\ lastOutcome' =
                IF Validate(ArrayOf(Record)).valid THEN "accepted" ELSE "rejected"
           /\ dataValid' = Validate(ArrayOf(Record)).valid ]_vars

\* The record "A*41", longer than the buffer, is complete, and the whole of
\* the next sentence waits in the buffer within the same snapshot.
C25_Witness ==
  /\ ~everDropped
  /\ pc = "GS_check"
  /\ dataStart /\ dataStop
  /\ Record = Bytes(<<"A", "*", "4", "1">>)
  /\ Remaining = 2
  /\ gpsDataBuffer[bufferTail] = Dollar
  /\ gpsDataBuffer[(bufferTail + 1) % GPSBUFR1] = LF

(***************************************************************************)
(* The index into daysInMonth[].                                           *)
(***************************************************************************)
\* Lines 155-186: the indices at which the timezone calculation reads
\* daysInMonth[] for the Fix fix and the offset tz: none when the month is
\* February of a leap year, one otherwise.
LookupIndex(fix, tz) ==
  LET h0 == fix.gpsTimeH + tz
      d1 == IF h0 >= 24 THEN fix.gpsDateD + 1
            ELSE IF h0 < 0 THEN fix.gpsDateD - 1 ELSE fix.gpsDateD
      m0 == fix.gpsDateM
      isLeap == (fix.gpsDateY % 4 = 0)
      m1 == IF m0 - 1 < 1 THEN 12 ELSE m0 - 1
  IN IF d1 > 0
     THEN (IF m0 = 2 /\ isLeap THEN {} ELSE {m0})
     ELSE (IF m1 = 2 /\ isLeap THEN {} ELSE {m1})

\* C26: whenever the timezone calculation runs, on the Fix of the initial
\* state or after a GPRMC sentence with any two digits for the month, the
\* index at which it reads daysInMonth[] is within 1..12.
C26_MonthIndexInRange ==
  [][ ParseStep =>
        \A oob \in OobBytes : LookupIndex(Decoded(oob), TZOFFSET) \subseteq 1..12 ]_vars

(***************************************************************************)
(* The timezone calculation there and back.                                *)
(***************************************************************************)
\* Offsets of less than a day, and every hour.
TripShifts == -23..23
TripHours == 0..23

\* The Fix holds a valid date and an hour; the calculation is about to run
\* with the offset, then with the opposite offset.  lastRecord keeps the
\* hour and the date drawn.
TripInit ==
  /\ stream = <<>> /\ sent = 0 /\ rxFifo = <<>>
  /\ now = 0 /\ elapsed = 0 /\ acceptedAt = -1
  /\ TZOFFSET \in TripShifts
  /\ gpsDataBuffer = [i \in 0..GPSBUFR1 - 1 |-> 0]
  /\ bufferHead = 0 /\ bufferTail = 0 /\ bufferOverflow = FALSE
  /\ isrActive = FALSE
  /\ pc = "TZ_there"
  /\ bufferOverflowed = FALSE /\ bufferHeadCopy = 0 /\ character = 0
  /\ dataValid = TRUE
  /\ dataStart = FALSE /\ dataStop = FALSE /\ dataCounter = 0
  /\ sentence = [i \in 0..NMEAMAXLEN |-> 0]
  /\ checksumErrors = 0 /\ lastFixMillis = 0 /\ signalWarning = FALSE
  /\ gpsValid = TRUE
  /\ \E dt \in TzDates : gpsDateD = dt.d /\ gpsDateM = dt.m /\ gpsDateY = dt.y
  /\ gpsTimeH \in TripHours
  /\ gpsTimeM = 0 /\ gpsTimeS = 0
  /\ gpsLatD = [num |-> 0, den |-> 1]
  /\ gpsLongD = [num |-> 0, den |-> 1]
  /\ gpsSats = 0
  /\ stored = <<>> /\ readOut = <<>> /\ dropped = 0 /\ everDropped = FALSE
  /\ lastRecord = <<gpsTimeH, gpsDateD, gpsDateM, gpsDateY>>
  /\ lastOutcome = "accepted"

\* Lines 149-190 run on the Fix with the offset tz.
Convert(tz, from, to) ==
  /\ pc = from
  /\ \E oob \in OobBytes :
       \E f \in { Timezone(Fix, tz, oob) } :
          /\ gpsTimeH' = f.gpsTimeH
          /\ gpsDateD' = f.gpsDateD
          /\ gpsDateM' = f.gpsDateM
          /\ gpsDateY' = f.gpsDateY
  /\ pc' = to
  /\ UNCHANGED <<envVars, ringVars, isrActive, bufferOverflowed, bufferHeadCopy,
                 character, dataValid, frameVars, checksumErrors, lastFixMillis,
                 signalWarning, gpsValid, gpsTimeM, gpsTimeS, gpsLatD, gpsLongD,
                 gpsSats, histVars>>

ConvertThere == Convert(TZOFFSET, "TZ_there", "TZ_back")
ConvertBack == Convert(-TZOFFSET, "TZ_back", "TZ_done")

TripNext == ConvertThere \/ ConvertBack

SpecTrip == TripInit /\ [][TripNext]_vars

\* C27: for a valid date, an hour and an offset of less than a day, the
\* calculation with the offset and then with the opposite offset gives back
\* the hour, the day, the month and the year.
C27_RoundTrip ==
  (pc = "TZ_done") => <<gpsTimeH, gpsDateD, gpsDateM, gpsDateY>> = lastRecord

\* Hour 00 on 01/01/00 has been taken five hours back, to 31/12/99, and
\* five hours forward again.
C27_Witness ==
  /\ pc = "TZ_done"
  /\ TZOFFSET = -5
  /\ lastRecord = <<0, 1, 1, 0>>
  /\ <<gpsTimeH, gpsDateD, gpsDateM, gpsDateY>> = lastRecord

(***************************************************************************)
(* Fields shorter than the width parseSentence() reads.                    *)
(***************************************************************************)
\* A time of two characters followed by a digit; a sentence of the greatest
\* length whose date has one character.
RmcShortTime == Bytes(<<"G", "P", "R", "M", "C", ",", "1", "2", ",", "7">>)
RmcShortDate ==
  Bytes(<<"G", "P", "R", "M", "C", ",", "1", "2", "3", "4", "5", "6", ",", "A",
          ",", "1", "2", "3", "4", ".", "5", ",", "N",
          ",", "1", "2", "3", "4", "5", ".", "6", ",", "E", ",">>)
    \o [i \in 1..(NMEAMAXLEN - 3 - 34 - 4) |-> Ord("0")]
    \o Bytes(<<",", "8", ",", "1">>)
ShortRecords ==
  { WithChecksum(RmcShortTime, TRUE), WithChecksum(RmcShortDate, TRUE),
    WithChecksum(RmcFull, TRUE) }

ShortInit ==
  /\ InitProgram
  /\ now = 0
  /\ stream = <<>>
  /\ TZOFFSET = 0

ShortNext ==
  \/ Delivered < MaxFixSentences /\ \E r \in ShortRecords : DeliverRecord(r)
  \/ LoopRest

SpecShort == ShortInit /\ [][ShortNext]_vars

\* The number the two characters of f at i and i + 1 write, a character f
\* does not have counting for nothing.
Dig(f, i) == IF i <= Len(f) THEN dtoi(f[i]) ELSE 0
PadPair(f, i) == Dig(f, i) * 10 + Dig(f, i + 1)

\* Field k of payload q is decoded: it and the fields before it are filled.
Reached(q, k) == \A j \in 1..k : FieldOf(q, j) # <<>>

\* C28: when parseSentence() decodes a GPRMC sentence, the characters read
\* at fixed offsets in a field (time, latitude degrees, longitude degrees,
\* date) lie within the field or on its terminator, at an index of
\* sentence[] no greater than NMEAMAXLEN, so the time and the date decoded
\* are those the characters of their own fields write.
C28_ReadsStayInField ==
  [][ (ParseStep /\ IsRmc(lastRecord)) =>
        \E q \in { PayloadOf(lastRecord) } :
          /\ \A k \in {1, 3, 5, 9} :
               Reached(q, k) =>
                 /\ CommaAt(q, k) + FixedWidth(k) - 1
                      <= CommaAt(q, k) + Len(FieldOf(q, k))
                 /\ CommaAt(q, k) + FixedWidth(k) - 1 <= NMEAMAXLEN
          /\ \A oob \in OobBytes :
               \E p \in { Decoded(oob) } :
                 /\ Reached(q, 1) =>
                      /\ p.gpsTimeH = PadPair(FieldOf(q, 1), 1)
                      /\ p.gpsTimeM = PadPair(FieldOf(q, 1), 3)
                      /\ p.gpsTimeS = PadPair(FieldOf(q, 1), 5)
                 /\ Reached(q, 9) =>
                      /\ p.gpsDateD = PadPair(FieldOf(q, 9), 1)
                      /\ p.gpsDateM = PadPair(FieldOf(q, 9), 3)
                      /\ p.gpsDateY = PadPair(FieldOf(q, 9), 5) ]_vars

====
